---- MODULE Spec2Model ----
(***************************************************************************)
(* Call assembly, admission and lifecycle of api/agent/call.go.            *)
(*                                                                         *)
(* The model follows one Call handle at a time: GetCall builds it from an  *)
(* ordered list of configurators, Start and End drive it.  Collaborators   *)
(* (call overrider, resource tracker, persistence handler, hooks) answer   *)
(* nondeterministically; every invocation of one is appended to `trace`.   *)
(***************************************************************************)
EXTENDS Naturals, Sequences, FiniteSets, TLC

VARIABLES
    held,           \* the Call handle GetCall returned: <<>> or <<call>>
    trace,          \* events since the latest GetCall began
    ret,            \* what the latest operation returned
    hdr,            \* response header entries of the http.ResponseWriter
    format,         \* Format field of the shared route / fn objects
    callOverrider,  \* agent.callOverrider: "nil" or "set"
    now,            \* clock behind time.Now()
    nextId,         \* counter behind id.New()
    ngets,          \* GetCall invocations so far
    ninv,           \* Start/End invocations on the held Call so far
    cfgArgs,        \* the app and route / fn objects a config is built from
    cfgOut,         \* the models.Config the latest builder returned
    loads,          \* the setCallPayload executions: caller, reader goroutine, channel
    pool,           \* bufPool: the buffers that are in the pool
    bufs            \* the contents of every buffer allocated so far

configVars == <<cfgArgs, cfgOut>>
payloadVars == <<loads, pool, bufs>>
agentVars == <<held, trace, ret, hdr, format, callOverrider, now, nextId, ngets, ninv>>
vars == <<held, trace, ret, hdr, format, callOverrider, now, nextId, ngets, ninv,
          cfgArgs, cfgOut, loads, pool, bufs>>

\* ---------------------------------------------------------------- bounds
MaxOpts == 2
MaxInvocations == 3
MaxRequests == 2
MaxConfigKeys == 2
MaxLoads == 2

\* ---------------------------------------------------------------- errors
\* A Go error value: its identity (what == compares) and its message.
Err(id, msg) == [id |-> id, msg |-> msg]
Nil == Err("nil", "")
DeadlineExceeded == Err("context.DeadlineExceeded", "context deadline exceeded")
Canceled == Err("context.Canceled", "context canceled")
ErrCallTimeoutServerBusy == Err("models.ErrCallTimeoutServerBusy", "Timed out - server too busy")
ErrNoModel == Err("errors.New@407", "no model or request provided for call")
ErrExtensions == Err("errors.New@191", "cloud event extensions must be marshaled with known type")
\* errors of collaborators
ErrValidate == Err("models.ErrRoutesMissingImage", "Missing route Image")
ErrRead == Err("read", "unexpected EOF")
ErrOverrider == Err("overrider", "override refused")
ErrHandler == Err("handler", "datastore unavailable")
ErrHook == Err("hook", "listener failed")
ErrExec == Err("exec", "container exited")
\* an error that reads like the deadline sentinel but is another value
ErrLookalike == Err("errors.New@exec", "context deadline exceeded")
PanicTypeAssertion == Err("panic", "interface conversion: interface {} is *models.Fn, not *models.Trigger")

Errorf(prefix, e) == Err("fmt.Errorf", prefix \o e.msg)

\* ---------------------------------------------------------------- contexts
Ctxs == {"live", "canceled", "deadline"}
CtxErr(ctx) ==
    CASE ctx = "canceled" -> Canceled
      [] ctx = "deadline" -> DeadlineExceeded
      [] OTHER -> Nil

\* ---------------------------------------------------------------- objects
ceMimeType == "application/cloudevents+json"
FormatCloudEvent == "cloudevent"
FormatDefault == "default"
TypeSync == "sync"
TypeAsync == "async"

\* ---------------------------------------------------------------- config
\* A models.Config or models.Annotations map: a function on its keys.
EmptyMap == [k \in {} |-> ""]
Map1(k, v) == [x \in {k} |-> v]
\* for k, v := range m2 { conf[k] = v } on top of the entries of m1
Merge(m1, m2) ==
    [k \in DOMAIN m1 \cup DOMAIN m2 |-> IF k \in DOMAIN m2 THEN m2[k] ELSE m1[k]]
\* A write that leaves a key alone when it is already there.
PutIfAbsent(conf, k, v) ==
    [x \in DOMAIN conf \cup {k} |-> IF x = k /\ k \notin DOMAIN conf THEN v ELSE conf[x]]
\* conf[k] = v
Put(conf, k, v) == [x \in DOMAIN conf \cup {k} |-> IF x = k THEN v ELSE conf[x]]

\* fmt.Sprintf("%d", n)
Digits == <<"0", "1", "2", "3", "4", "5", "6", "7", "8", "9">>
RECURSIVE FormatUint(_)
FormatUint(n) == IF n < 10 THEN Digits[n + 1] ELSE FormatUint(n \div 10) \o Digits[(n % 10) + 1]
\* MilliCPUs.String(): empty for zero, else the quantity in milli-CPUs
MilliCPUsString(c) == IF c = 0 THEN "" ELSE FormatUint(c) \o "m"

\* Annotations.MergeChange: the entries of `b` laid over those of `a`
MergeChange(a, b) == Merge(a, b)

App == [ID |-> "app1", Name |-> "myapp",
        Config |-> Map1("DB_URL", "app-value"), Annotations |-> Map1("owner", "app")]

Routes == {"r1", "r2"}
Route(r) ==
    IF r = "r1"
    THEN [Path |-> "/hello", Image |-> "fnproject/hello", Type |-> TypeSync,
          Timeout |-> 30, IdleTimeout |-> 30, TmpFsSize |-> 1, Memory |-> 1, CPUs |-> 0,
          Headers |-> << <<"X-Route", 1>> >>,
          Config |-> Map1("FN_MEMORY", "route-value"), Annotations |-> Map1("owner", "route")]
    ELSE [Path |-> "/bad", Image |-> "", Type |-> TypeAsync,
          Timeout |-> 30, IdleTimeout |-> 30, TmpFsSize |-> 0, Memory |-> 2, CPUs |-> 1,
          Headers |-> << >>, Config |-> EmptyMap, Annotations |-> EmptyMap]

Fn == [ID |-> "f1", Image |-> "fnproject/fn", Timeout |-> 30, IdleTimeout |-> 30, Memory |-> 1,
       Config |-> Map1("FN_TYPE", "fn-value"), Annotations |-> Map1("owner", "fn")]
Trigger == [ID |-> "t1", Source |-> "/t/hello", Annotations |-> Map1("kind", "http")]

\* Content-Type header values, cut at the parameter separator.
ContentTypes == { <<ceMimeType, "charset=UTF-8">>, <<"text/plain">>, << >> }
\* Request bodies: one that reads to EOF, one whose Read fails.
Bodies == {"ok", "broken"}
Requests ==
    { [ct |-> <<ceMimeType, "charset=UTF-8">>, body |-> "ok"],
      [ct |-> <<"text/plain">>, body |-> "ok"],
      [ct |-> << >>, body |-> "ok"],
      [ct |-> <<"text/plain">>, body |-> "broken"] }
\* reqURL(req) and req.Method: every request is a POST to the same host
reqURL(req) == "http://fn.example"
reqMethod(req) == "POST"
PlainRequest == [ct |-> <<"text/plain">>, body |-> "ok"]
CloudEventRequest == [ct |-> <<ceMimeType, "charset=UTF-8">>, body |-> "ok"]

\* A stored call model, as handed to FromModel for asynchronous replay.
StoredModel ==
    [ptr |-> "m1", ID |-> 99, Path |-> "/async", Image |-> "fnproject/async",
     Type |-> TypeAsync, Format |-> FormatDefault, Timeout |-> 30, IdleTimeout |-> 30,
     TmpFsSize |-> 1, Memory |-> 2, CPUs |-> 1, CreatedAt |-> 0,
     AppID |-> "app1", FnID |-> "", TriggerID |-> "", Payload |-> "",
     Config |-> Map1("FN_TYPE", "async"), Annotations |-> EmptyMap,
     Headers |-> << >>, URL |-> "http://fn/r/myapp/async", Method |-> "POST",
     StartedAt |-> 0, CompletedAt |-> 0, Status |-> "", Error |-> "", Stats |-> << >>]

\* The nil *models.Call of a call nothing populated.
NilCall ==
    [ptr |-> "nil", ID |-> 0, Path |-> "", Image |-> "",
     Type |-> "", Format |-> "", Timeout |-> 0, IdleTimeout |-> 0,
     TmpFsSize |-> 0, Memory |-> 0, CPUs |-> 0, CreatedAt |-> 0,
     AppID |-> "", FnID |-> "", TriggerID |-> "", Payload |-> "",
     Config |-> EmptyMap, Annotations |-> EmptyMap,
     Headers |-> << >>, URL |-> "", Method |-> "",
     StartedAt |-> 0, CompletedAt |-> 0, Status |-> "", Error |-> "", Stats |-> << >>]

\* Output sinks: "rw" is an http.ResponseWriter, "buf" a plain io.Writer,
\* "stderr" the call's log stream, "nil" no writer.
IsResponseWriter(w) == w = "rw"

\* ---------------------------------------------------------------- options
SourceKinds == {"FromRequest", "FromEvent", "FromHTTPTriggerRequest", "FromModel", "FromModelAndInput"}

Opts ==
         [kind : {"FromRequest"}, route : {"r1"}, req : Requests]
    \cup [kind : {"FromRequest"}, route : {"r2"}, req : {PlainRequest}]
    \cup [kind : {"FromHTTPTriggerRequest"}, req : Requests]
    \cup [kind : {"FromEvent"}, ext : {"map", "raw"}]
    \cup [kind : {"FromModel"}]
    \cup [kind : {"FromModelAndInput"}, body : Bodies]
    \cup [kind : {"WithWriter"}, w : {"rw", "buf"}]
    \cup [kind : {"WithExtensions"}, ext : {"e1"}]

OptLists == UNION { [1..n -> Opts] : n \in 0..MaxOpts }

\* ---------------------------------------------------------------- builder
\* The call under construction (var c call, GetCall line 396) together
\* with the outside state the configurators touch.  `err` is the error the
\* configurator (or GetCall) returned; every step passes a failed builder on
\* untouched.  `id` is the local variable id of the http configurators.
NewBuilder(h, f, t, n) ==
    [Call |-> NilCall, IsCloudEvent |-> FALSE, w |-> "nil", extensions |-> "nil",
     hdr |-> h, format |-> f, now |-> t, nextId |-> n, id |-> 0,
     ev |-> << >>, err |-> Nil]

Emit(b, e) == [b EXCEPT !.ev = Append(@, e)]
Fail(b, e) == [b EXCEPT !.err = e]

\* mime.ParseMediaType: the media type before the first ";", or an error
\* for an empty header value.
ParseMediaType(ct) ==
    IF ct = << >> THEN [t |-> "", err |-> Err("mime", "mime: no media type")]
    ELSE [t |-> ct[1], err |-> Nil]

IsCloudEventType(ct) == ParseMediaType(ct).err = Nil /\ ParseMediaType(ct).t = ceMimeType

\* Content-Type sniffing of FromRequest / FromHTTPTriggerRequest; `obj` is
\* the route or fn whose Format field is written.
SniffFormat(obj, req, b) ==
    [b EXCEPT !.IsCloudEvent = IF IsCloudEventType(req.ct) THEN TRUE ELSE @,
              !.format[obj] = IF IsCloudEventType(req.ct) THEN FormatCloudEvent
                              ELSE IF @ = "" THEN FormatDefault ELSE @]

\* id := id.New().String()
NewID(b) == [b EXCEPT !.id = b.nextId, !.nextId = @ + 1]

\* rw.Header().Add for every entry of `hs`
RECURSIVE AddHeaders(_, _)
AddHeaders(h, hs) ==
    IF hs = << >> THEN h ELSE AddHeaders(Append(h, Head(hs)), Tail(hs))

\* The eager response headers: FN_CALL_ID, then `extra`, when c.w is an
\* http.ResponseWriter.
PreWriteHeaders(b, extra) ==
    IF b.err = Nil /\ IsResponseWriter(b.w)
    THEN Emit([b EXCEPT !.hdr = AddHeaders(Append(@, <<"FN_CALL_ID", b.id>>), extra)],
              <<"hdr", "FN_CALL_ID", b.id>>)
    ELSE b

\* route.Validate()
RouteValidate(rt) == IF rt.Image = "" THEN ErrValidate ELSE Nil

\* err = route.Validate(); if err != nil { return err }
ValidateRoute(b, r) ==
    IF b.err # Nil THEN b
    ELSE Fail(Emit(b, <<"Validate", r>>), RouteValidate(Route(r)))

\* setCallPayload seen from its caller: the select returns the reader's
\* result, or ctx.Err() when ctx is done and the select takes that case.
setCallPayload(ctx, body, race, b) ==
    IF b.err # Nil THEN b
    ELSE IF CtxErr(ctx) # Nil /\ race = "ctx"
         THEN Fail(Emit(b, <<"setCallPayload", body>>), CtxErr(ctx))
    ELSE IF body = "broken" THEN Fail(Emit(b, <<"setCallPayload", body>>), ErrRead)
    ELSE Emit([b EXCEPT !.Call.Payload = "data"], <<"setCallPayload", body>>)

\* c.Call = ...
Populate(b, kind, call) ==
    IF b.err # Nil THEN b
    ELSE Emit([b EXCEPT !.Call = call], <<"populate", kind, call>>)

\* common.DateTime(time.Now())
Tick(b) == IF b.err # Nil THEN b ELSE [b EXCEPT !.now = @ + 1]

\* conf["FN_CPUS"] = CPUs, if CPUs != ""
PutCPUs(conf, cpus) == IF cpus # "" THEN Put(conf, "FN_CPUS", cpus) ELSE conf

\* `route` is the route object with its Format field as it stands.
buildConfig(app, route) ==
    PutCPUs(
        Put(Put(Put(Put(Put(Put(Merge(app.Config, route.Config),
            "FN_FORMAT", route.Format),
            "FN_APP_NAME", app.Name),
            "FN_PATH", route.Path),
            "FN_MEMORY", FormatUint(route.Memory)),
            "FN_TYPE", route.Type),
            "FN_TMPSIZE", FormatUint(route.TmpFsSize)),
        MilliCPUsString(route.CPUs))

buildTriggerConfig(app, fn, trigger) ==
    Put(Put(Put(Put(Put(Put(Merge(app.Config, fn.Config),
        "FN_FORMAT", fn.Format),
        "FN_APP_NAME", app.Name),
        "FN_PATH", trigger.Source),
        "FN_MEMORY", FormatUint(fn.Memory)),
        "FN_TYPE", "sync"),
        "FN_FN_ID", fn.ID)

\* the route / fn object: its fixed fields and the Format it holds now
RouteObj(r, f) == [Format |-> f] @@ Route(r)
FnObj(f) == [Format |-> f] @@ Fn

RouteCall(b, o) ==
    [ptr |-> "new", ID |-> b.id, Path |-> Route(o.route).Path, Image |-> Route(o.route).Image,
     Type |-> Route(o.route).Type, Format |-> b.format[o.route],
     Timeout |-> Route(o.route).Timeout,
     IdleTimeout |-> Route(o.route).IdleTimeout, TmpFsSize |-> Route(o.route).TmpFsSize,
     Memory |-> Route(o.route).Memory, CPUs |-> Route(o.route).CPUs, CreatedAt |-> b.now,
     AppID |-> App.ID, FnID |-> "", TriggerID |-> "", Payload |-> "",
     Config |-> buildConfig(App, RouteObj(o.route, b.format[o.route])),
     Annotations |-> MergeChange(App.Annotations, Route(o.route).Annotations),
     Headers |-> o.req.ct, URL |-> reqURL(o.req), Method |-> reqMethod(o.req),
     StartedAt |-> 0, CompletedAt |-> 0, Status |-> "", Error |-> "", Stats |-> << >>]

\* c.Call = &models.Call{...} of FromRequest
PopulateRoute(b, o) == Populate(b, o.kind, RouteCall(b, o))

\* A mis-ordered FromRequest: the route is validated before the response
\* headers are written.
FromRequestValidateFirst(o, ctx, race, b) ==
    setCallPayload(ctx, o.req.body, race,
        PopulateRoute(Tick(
            PreWriteHeaders(
                ValidateRoute(NewID(SniffFormat(o.route, o.req, b)), o.route),
                Route(o.route).Headers)), o))

FromRequest(o, ctx, race, b) ==
    setCallPayload(ctx, o.req.body, race,
        PopulateRoute(Tick(
            ValidateRoute(
                PreWriteHeaders(NewID(SniffFormat(o.route, o.req, b)), Route(o.route).Headers),
                o.route)), o))

EventCall(b) ==
    [ptr |-> "new", ID |-> b.id, Path |-> "", Image |-> Fn.Image,
     Type |-> "sync", Format |-> "cloudevent", Timeout |-> Fn.Timeout,
     IdleTimeout |-> Fn.IdleTimeout, TmpFsSize |-> 0, Memory |-> Fn.Memory,
     CPUs |-> 0, CreatedAt |-> 0,
     AppID |-> "", FnID |-> "", TriggerID |-> "", Payload |-> "",
     Config |-> EmptyMap,
     Annotations |-> MergeChange(MergeChange(App.Annotations, Fn.Annotations),
                                 Trigger.Annotations),
     Headers |-> << >>, URL |-> "", Method |-> "",
     StartedAt |-> 0, CompletedAt |-> 0, Status |-> "", Error |-> "", Stats |-> << >>]

\* ext["fn"].(*models.Trigger): the entry under "fn" holds a *models.Fn
\* (buildCloudEvent line 169), so the single-value assertion panics.
AssertTrigger(dyn) == IF dyn = "*models.Trigger" THEN Nil ELSE PanicTypeAssertion

\* c.Call = &models.Call{...} of FromEvent
PopulateEvent(b, o) == Populate(b, o.kind, EventCall(b))

FromEvent(o, ctx, race, b) ==
    IF o.ext # "map" THEN Fail(b, ErrExtensions)
    ELSE IF AssertTrigger("*models.Fn") # Nil THEN Fail(b, AssertTrigger("*models.Fn"))
    ELSE PopulateEvent(NewID(b), o)

TriggerCall(b, o) ==
    [ptr |-> "new", ID |-> b.id, Path |-> Trigger.Source, Image |-> Fn.Image,
     Type |-> "sync", Format |-> b.format["f1"], Timeout |-> Fn.Timeout,
     IdleTimeout |-> Fn.IdleTimeout, TmpFsSize |-> 0, Memory |-> Fn.Memory,
     CPUs |-> 0, CreatedAt |-> b.now,
     AppID |-> App.ID, FnID |-> Fn.ID, TriggerID |-> Trigger.ID, Payload |-> "",
     Config |-> buildTriggerConfig(App, FnObj(b.format["f1"]), Trigger),
     Annotations |-> MergeChange(MergeChange(App.Annotations, Fn.Annotations),
                                 Trigger.Annotations),
     Headers |-> o.req.ct, URL |-> reqURL(o.req), Method |-> reqMethod(o.req),
     StartedAt |-> 0, CompletedAt |-> 0, Status |-> "", Error |-> "", Stats |-> << >>]

\* c.Call = &models.Call{...} of FromHTTPTriggerRequest
PopulateTrigger(b, o) == Populate(b, o.kind, TriggerCall(b, o))

FromHTTPTriggerRequest(o, ctx, race, b) ==
    setCallPayload(ctx, o.req.body, race,
        PopulateTrigger(Tick(
            PreWriteHeaders(NewID(SniffFormat("f1", o.req, b)), << >>)), o))

FromModel(o, ctx, race, b) == Populate(b, o.kind, StoredModel)

FromModelAndInput(o, ctx, race, b) ==
    setCallPayload(ctx, o.body, race, Populate(b, o.kind, StoredModel))

WithWriter(o, ctx, race, b) == [b EXCEPT !.w = o.w]

WithExtensions(o, ctx, race, b) == [b EXCEPT !.extensions = o.ext]

OptReturn(b) == Emit(b, <<"opt.return", b.err>>)

\* o(ctx, &c)
ApplyOpt(o, ctx, race, b) ==
    OptReturn(
        CASE o.kind = "FromRequest" -> FromRequest(o, ctx, race, Emit(b, <<"opt", o>>))
          [] o.kind = "FromEvent" -> FromEvent(o, ctx, race, Emit(b, <<"opt", o>>))
          [] o.kind = "FromHTTPTriggerRequest" ->
                 FromHTTPTriggerRequest(o, ctx, race, Emit(b, <<"opt", o>>))
          [] o.kind = "FromModel" -> FromModel(o, ctx, race, Emit(b, <<"opt", o>>))
          [] o.kind = "FromModelAndInput" ->
                 FromModelAndInput(o, ctx, race, Emit(b, <<"opt", o>>))
          [] o.kind = "WithWriter" -> WithWriter(o, ctx, race, Emit(b, <<"opt", o>>))
          [] OTHER -> WithExtensions(o, ctx, race, Emit(b, <<"opt", o>>)))

\* ---------------------------------------------------------------- GetCall
\* A loop that goes on to the next configurator after one has failed.
RECURSIVE ApplyOptsKeepGoing(_, _, _, _)
ApplyOptsKeepGoing(opts, ctx, race, b) ==
    IF opts = << >> \/ b.err.id = "panic" THEN b
    ELSE ApplyOptsKeepGoing(Tail(opts), ctx, race,
             ApplyOpt(Head(opts), ctx, race, [b EXCEPT !.err = Nil]))

\* for _, o := range opts { err := o(ctx, &c); if err != nil { return nil, err } }
RECURSIVE ApplyOpts(_, _, _, _)
ApplyOpts(opts, ctx, race, b) ==
    IF opts = << >> \/ b.err # Nil THEN b
    ELSE ApplyOpts(Tail(opts), ctx, race, ApplyOpt(Head(opts), ctx, race, b))

\* if c.Call == nil { return nil, errors.New(...) }
CheckPopulated(b) ==
    IF b.err = Nil /\ b.Call.ptr = "nil" THEN Fail(b, ErrNoModel) ELSE b

\* if a.callOverrider != nil { ext, err := a.callOverrider(c.Call, c.extensions) ... }
Override(b, co, ovr) ==
    IF b.err # Nil \/ co = "nil" THEN b
    ELSE IF ovr # Nil THEN Fail(Emit(b, <<"callOverrider", b.extensions>>), ovr)
    ELSE Emit([b EXCEPT !.extensions = "overridden"], <<"callOverrider", b.extensions>>)

\* An admission demand that leaves the ephemeral storage out.
AdmissionMemOnly(call) == call.Memory

\* mem := c.Memory + uint64(c.TmpFsSize)
AdmissionMem(call) == call.Memory + call.TmpFsSize

\* if !a.resources.IsResourcePossible(mem, uint64(c.CPUs), c.Type == models.TypeAsync)
Admit(b, possible) ==
    IF b.err # Nil THEN b
    ELSE [b EXCEPT !.ev = Append(@, <<"IsResourcePossible", AdmissionMem(b.Call),
                                      b.Call.CPUs, b.Call.Type = TypeAsync, possible>>),
                   !.err = IF possible THEN Nil ELSE ErrCallTimeoutServerBusy]

\* GetCall up to the nil check: the builder after the step that returned,
\* b.err the error returned.
Configure(opts, ctx, race, b0) ==
    CheckPopulated(ApplyOpts(opts, ctx, race, Emit(b0, <<"GetCall", opts>>)))

\* GetCall from the overrider to the admission check.
Admission(b, ovr, possible, co) == Admit(Override(b, co, ovr), possible)

GetCallRun(opts, ctx, race, ovr, possible, b0, co) ==
    Admission(Configure(opts, ctx, race, b0), ovr, possible, co)

\* The &c GetCall returns: handler, trigger and log stream wired, the
\* output sink defaulted to the log stream.
Handle(b) ==
    [Call |-> b.Call, IsCloudEvent |-> b.IsCloudEvent,
     w |-> IF b.w = "nil" THEN "stderr" ELSE b.w,
     extensions |-> b.extensions,
     handler |-> "a.da", ct |-> "a", stderr |-> [closed |-> 0], isLB |-> FALSE]

\* What the collaborators can answer, given how far GetCall gets.
Races(ctx) == IF CtxErr(ctx) # Nil THEN {"reader", "ctx"} ELSE {"reader"}
OverriderResults(b, co) == IF b.err = Nil /\ co = "set" THEN {Nil, ErrOverrider} ELSE {Nil}
ResourceResults(b, ovr) == IF b.err = Nil /\ ovr = Nil THEN BOOLEAN ELSE {FALSE}

GetCall ==
    /\ ngets = 0
    /\ \E opts \in OptLists, ctx \in {"live", "canceled"} : \E race \in Races(ctx) :
       \E b2 \in {Configure(opts, ctx, race, NewBuilder(hdr, format, now, nextId))} :
       \E ovr \in OverriderResults(b2, callOverrider) : \E possible \in ResourceResults(b2, ovr) :
       \E b \in {Admission(b2, ovr, possible, callOverrider)} :
         /\ held' = IF b.err = Nil THEN << Handle(b) >> ELSE << >>
         /\ trace' = b.ev
         /\ ret' = [op |-> "GetCall", err |-> b.err, call |-> b.err = Nil,
                    panic |-> b.err.id = "panic"]
         /\ hdr' = b.hdr
         /\ format' = b.format
         /\ now' = b.now
         /\ nextId' = b.nextId
    /\ ngets' = ngets + 1
    /\ ninv' = 0
    /\ UNCHANGED <<callOverrider, configVars, payloadVars>>

\* The option lists of the HTTP front end: one source configurator for the
\* request, after an optional WithWriter for its response.
RequestSources ==
         [kind : {"FromRequest"}, route : {"r1"}, req : Requests]
    \cup [kind : {"FromHTTPTriggerRequest"}, req : Requests]
RequestOptLists ==
    { << o >> : o \in RequestSources }
        \cup { << [kind |-> "WithWriter", w |-> "rw"], o >> : o \in RequestSources }

\* GetCall for one more HTTP request on an agent that has served others:
\* the route and fn objects are the ones the earlier requests used.
Request ==
    /\ ngets < MaxRequests
    /\ \E opts \in RequestOptLists, ctx \in {"live", "canceled"} : \E race \in Races(ctx) :
       \E b2 \in {Configure(opts, ctx, race, NewBuilder(hdr, format, now, nextId))} :
       \E ovr \in OverriderResults(b2, callOverrider) : \E possible \in ResourceResults(b2, ovr) :
       \E b \in {Admission(b2, ovr, possible, callOverrider)} :
         /\ held' = IF b.err = Nil THEN << Handle(b) >> ELSE << >>
         /\ trace' = b.ev
         /\ ret' = [op |-> "GetCall", err |-> b.err, call |-> b.err = Nil,
                    panic |-> b.err.id = "panic"]
         /\ hdr' = b.hdr
         /\ format' = b.format
         /\ now' = b.now
         /\ nextId' = b.nextId
    /\ ngets' = ngets + 1
    /\ ninv' = 0
    /\ UNCHANGED <<callOverrider, configVars, payloadVars>>

\* ---------------------------------------------------------------- lifecycle
\* rw.Header().Set(k, v)
SetHeader(h, k, v) == Append(SelectSeq(h, LAMBDA e : e[1] # k), <<k, v>>)

\* One Start or End in progress: the call, the outside state it touches,
\* the events it produced, and whether (and what) it has returned.  Every
\* step passes a returned invocation on untouched.
Lifecycle(c, h, t) == [c |-> c, hdr |-> h, now |-> t, ev |-> << >>, err |-> Nil, done |-> FALSE]
Return(s, e) == [s EXCEPT !.err = e, !.done = TRUE]
Note(s, e) == [s EXCEPT !.ev = Append(@, e)]

\* A Start that does not look at the context before it begins.
StartCtxUnchecked(s, ctx) == s

\* if ctx.Err() != nil { return ctx.Err() }
StartCtxCheck(s, ctx) == IF CtxErr(ctx) # Nil THEN Return(s, CtxErr(ctx)) ELSE s

\* c.StartedAt = common.DateTime(time.Now()); c.Status = "running"
StartMark(s) ==
    IF s.done THEN s
    ELSE [s EXCEPT !.now = @ + 1, !.c.Call.StartedAt = s.now + 1, !.c.Call.Status = "running"]

\* if !c.isLB { if rw, ok := c.w.(http.ResponseWriter); ok { rw.Header().Set(...) } }
StartWaitHeader(s) ==
    IF ~s.done /\ ~s.c.isLB /\ IsResponseWriter(s.c.w)
    THEN [s EXCEPT !.hdr = SetHeader(@, "XXX-FXLB-WAIT", s.c.Call.StartedAt - s.c.Call.CreatedAt)]
    ELSE s

\* if c.Type == models.TypeAsync { err := c.handler.Start(ctx, c.Model()) ... }
StartReserve(s, hs) ==
    IF s.done \/ s.c.Call.Type # TypeAsync THEN s
    ELSE IF hs # Nil THEN Return(Note(s, <<"handler.Start", s.c.Call.ID, hs>>), hs)
    ELSE Note(s, <<"handler.Start", s.c.Call.ID, hs>>)

\* A Start that fires the hook twice.
StartBeforeCallTwice(s, bc) ==
    IF s.done THEN s
    ELSE Return(Note(Note(s, <<"BeforeCall", s.c.Call.ID, bc>>), <<"BeforeCall", s.c.Call.ID, bc>>),
                IF bc # Nil THEN Errorf("BeforeCall: ", bc) ELSE Nil)

\* err := c.ct.fireBeforeCall(ctx, c.Model())
\* if err != nil { return fmt.Errorf("BeforeCall: %v", err) }; return nil
StartBeforeCall(s, bc) ==
    IF s.done THEN s
    ELSE Return(Note(s, <<"BeforeCall", s.c.Call.ID, bc>>),
                IF bc # Nil THEN Errorf("BeforeCall: ", bc) ELSE Nil)

StartRun(c, h, t, ctx, hs, bc) ==
    StartBeforeCall(
        StartReserve(
            StartWaitHeader(StartMark(
                StartCtxCheck(Note(Lifecycle(c, h, t), <<"Start", ctx>>), ctx))),
            hs),
        bc)

Start ==
    /\ held # << >>
    /\ ninv < MaxInvocations
    /\ \E ctx \in Ctxs, hs \in {Nil, ErrHandler}, bc \in {Nil, ErrHook} :
       \E s \in {StartRun(held[1], hdr, now, ctx, hs, bc)} :
         /\ held' = << s.c >>
         /\ trace' = trace \o s.ev
         /\ ret' = [op |-> "Start", err |-> s.err, call |-> FALSE, panic |-> FALSE]
         /\ hdr' = s.hdr
         /\ now' = s.now
    /\ ninv' = ninv + 1
    /\ UNCHANGED <<format, callOverrider, nextId, ngets, configVars, payloadVars>>

\* A status switch that recognises the deadline by its message.
StatusOfByMessage(errIn) ==
    CASE errIn = Nil -> "success"
      [] errIn # Nil /\ errIn.msg = DeadlineExceeded.msg -> "timeout"
      [] OTHER -> "error"

\* switch errIn { case nil: ... case context.DeadlineExceeded: ... default: ... }
StatusOf(errIn) ==
    CASE errIn = Nil -> "success"
      [] errIn = DeadlineExceeded -> "timeout"
      [] OTHER -> "error"

\* An End that also stamps the completion time over the creation time.
EndMarkStamping(s, errIn) ==
    [s EXCEPT !.now = @ + 1,
              !.c.Call.CompletedAt = s.now + 1,
              !.c.Call.CreatedAt = s.now + 1,
              !.c.Call.Status = StatusOf(errIn),
              !.c.Call.Error = IF StatusOf(errIn) = "error" THEN errIn.msg ELSE @]

\* c.CompletedAt = common.DateTime(time.Now()); the status switch
EndMark(s, errIn) ==
    [s EXCEPT !.now = @ + 1,
              !.c.Call.CompletedAt = s.now + 1,
              !.c.Call.Status = StatusOf(errIn),
              !.c.Call.Error = IF StatusOf(errIn) = "error" THEN errIn.msg ELSE @]

\* drivers.Decimate: a series of at most `max` samples is returned as it
\* is, a longer one is thinned to `max` samples spread evenly over it, the
\* last one kept, in their order.
Decimate(max, stats) ==
    IF Len(stats) <= max THEN stats
    ELSE [k \in 1..max |-> stats[(k * Len(stats)) \div max]]

\* the sample bound End hands to Decimate
MaxSamples == 240

\* An End that persists the series as the driver left it.
EndDecimateSkipped(s) == s

\* c.Call.Stats = drivers.Decimate(240, c.Call.Stats)
EndDecimate(s) == [s EXCEPT !.c.Call.Stats = Decimate(MaxSamples, @)]

\* An End that gives up when the persistence layer fails.
EndFinishFatal(s, fin) ==
    IF fin # Nil
    THEN Return(Note(s, <<"handler.Finish", s.c.Call.ID, s.c.stderr.closed, fin,
                          s.c.Call.Stats>>), fin)
    ELSE Note(s, <<"handler.Finish", s.c.Call.ID, s.c.stderr.closed, fin, s.c.Call.Stats>>)

\* if err := c.handler.Finish(ctx, c.Model(), c.stderr, ...); err != nil { log }
EndFinish(s, fin) ==
    Note(s, <<"handler.Finish", s.c.Call.ID, s.c.stderr.closed, fin, s.c.Call.Stats>>)

\* c.stderr.Close()
EndClose(s) ==
    IF s.done THEN s ELSE Note([s EXCEPT !.c.stderr.closed = @ + 1], <<"stderr.Close">>)

\* An End that returns the hook's own result and forgets errIn.
EndAfterCallSwallow(s, errIn, ac) ==
    IF s.done THEN s ELSE Return(Note(s, <<"AfterCall", s.c.Call.ID, ac>>), ac)

\* if err := c.ct.fireAfterCall(...); err != nil { return fmt.Errorf("AfterCall: %v", err) }
\* return errIn
EndAfterCall(s, errIn, ac) ==
    IF s.done THEN s
    ELSE Return(Note(s, <<"AfterCall", s.c.Call.ID, ac>>),
                IF ac # Nil THEN Errorf("AfterCall: ", ac) ELSE errIn)

\* An End that closes the log stream before it hands it to Finish.
EndRunCloseFirst(c, h, t, errIn, fin, ac) ==
    EndAfterCall(
        EndFinish(
            EndClose(EndDecimate(
                EndMark(Note(Lifecycle(c, h, t), <<"End", errIn, Len(c.Call.Stats)>>), errIn))),
            fin),
        errIn, ac)

EndRun(c, h, t, errIn, fin, ac) ==
    EndAfterCall(
        EndClose(EndFinish(
            EndDecimate(
                EndMark(Note(Lifecycle(c, h, t), <<"End", errIn, Len(c.Call.Stats)>>), errIn)),
            fin)),
        errIn, ac)

ErrIns == {Nil, DeadlineExceeded, ErrExec, ErrLookalike}

End ==
    /\ held # << >>
    /\ ninv < MaxInvocations
    /\ \E errIn \in ErrIns, fin \in {Nil, ErrHandler}, ac \in {Nil, ErrHook} :
       \E s \in {EndRun(held[1], hdr, now, errIn, fin, ac)} :
         /\ held' = << s.c >>
         /\ trace' = trace \o s.ev
         /\ ret' = [op |-> "End", err |-> s.err, call |-> FALSE, panic |-> FALSE]
         /\ hdr' = s.hdr
         /\ now' = s.now
    /\ ninv' = ninv + 1
    /\ UNCHANGED <<format, callOverrider, nextId, ngets, configVars, payloadVars>>

\* ---------------------------------------------------------------- setCallPayload, step by step
\* One execution of setCallPayload: `pc` is where the caller stands (idle,
\* select, returned), `rpc` where its reader goroutine stands, `ch` the
\* channel errApp, `buf` the buffer the reader got (0: none), `ret` what
\* the caller returned, Payload the c.Payload of its call.
\* The body sources: one that reads to EOF, one whose Read fails, one whose
\* Read does not return unless the server unblocks it after a cancellation.
Sources == {"ok", "broken", "stuck"}
NewChan == [q |-> << >>, closed |-> FALSE]
Load(src) ==
    [src |-> src, ctx |-> "live", pc |-> "idle", rpc |-> "idle", buf |-> 0, ch |-> NewChan,
     ret |-> Nil, Payload |-> << >>, readErr |-> Nil, put |-> FALSE]
NoLoads == loads = << >> /\ pool = {} /\ bufs = << >>
\* the bytes the body of load i yields
Body(i) == << i >>

\* errApp := make(chan error, 1)
ChanCap == 1
\* A channel without a buffer: a send waits for the receiver.
SendReadyUnbuffered(l) == l.pc = "select" /\ Len(l.ch.q) = 0
\* errApp <- err can proceed
SendReady(l) == Len(l.ch.q) < ChanCap
\* case err := <-errApp can proceed
RecvReady(l) == l.ch.q # << >> \/ l.ch.closed
\* the value a receive yields: the queued error, nil from a closed channel
Recv(l) == IF l.ch.q # << >> THEN Head(l.ch.q) ELSE Nil
\* A select that has no case for the context.
SelectCtxNever(l) == FALSE
\* case <-ctx.Done() can proceed
SelectCtxReady(l) == l.ctx # "live"

\* A Get that hands out a pooled buffer and leaves it in the pool.
PoolKeep(p, b) == p
\* bufPool.Get() of a pooled buffer takes it out of the pool
PoolTake(p, b) == p \ {b}

\* setCallPayload is called: the channel is made, the reader goroutine started
PayloadCallOf(i) ==
    /\ loads[i].pc = "idle"
    /\ loads' = [loads EXCEPT ![i].pc = "select", ![i].rpc = "get", ![i].ch = NewChan]
    /\ UNCHANGED <<pool, bufs>>

\* the context of load i is cancelled
CancelOf(i) ==
    /\ loads[i].ctx = "live"
    /\ loads' = [loads EXCEPT ![i].ctx = "canceled"]
    /\ UNCHANGED <<pool, bufs>>

\* buf := bufPool.Get().(*bytes.Buffer): a pooled buffer, or a new one
ReaderGetOf(i) ==
    /\ loads[i].rpc = "get"
    /\ \/ \E b \in pool :
              /\ loads' = [loads EXCEPT ![i].buf = b, ![i].rpc = "reset"]
              /\ pool' = PoolTake(pool, b)
              /\ UNCHANGED bufs
       \/ /\ loads' = [loads EXCEPT ![i].buf = Len(bufs) + 1, ![i].rpc = "reset"]
          /\ bufs' = Append(bufs, << >>)
          /\ UNCHANGED pool

\* buf.Reset()
ReaderResetOf(i) ==
    /\ loads[i].rpc = "reset"
    /\ bufs' = [bufs EXCEPT ![loads[i].buf] = << >>]
    /\ loads' = [loads EXCEPT ![i].rpc = "read"]
    /\ UNCHANGED pool

\* _, err := buf.ReadFrom(input) returns; if err != nil && err != io.EOF
ReaderReadOf(i) ==
    /\ loads[i].rpc = "read"
    /\ \/ /\ loads[i].src = "ok"
          /\ bufs' = [bufs EXCEPT ![loads[i].buf] = @ \o Body(i)]
          /\ loads' = [loads EXCEPT ![i].rpc = "store"]
       \/ /\ \/ loads[i].src = "broken"
             \/ loads[i].src = "stuck" /\ loads[i].ctx # "live"
          /\ loads' = [loads EXCEPT ![i].rpc = "send", ![i].readErr = ErrRead]
          /\ UNCHANGED bufs
    /\ UNCHANGED pool

\* errApp <- err; return
ReaderSendOf(i) ==
    /\ loads[i].rpc = "send"
    /\ SendReady(loads[i])
    /\ loads' = [loads EXCEPT ![i].ch.q = Append(@, loads[i].readErr), ![i].rpc = "done"]
    /\ UNCHANGED <<pool, bufs>>

\* c.Payload = buf.String()
ReaderStoreOf(i) ==
    /\ loads[i].rpc = "store"
    /\ loads' = [loads EXCEPT ![i].Payload = bufs[loads[i].buf], ![i].rpc = "put"]
    /\ UNCHANGED <<pool, bufs>>

\* bufPool.Put(buf)
ReaderPutOf(i) ==
    /\ loads[i].rpc = "put"
    /\ pool' = pool \cup {loads[i].buf}
    /\ loads' = [loads EXCEPT ![i].put = TRUE, ![i].rpc = "close"]
    /\ UNCHANGED bufs

\* close(errApp)
ReaderCloseOf(i) ==
    /\ loads[i].rpc = "close"
    /\ loads' = [loads EXCEPT ![i].ch.closed = TRUE, ![i].rpc = "done"]
    /\ UNCHANGED <<pool, bufs>>

\* select: case err := <-errApp: return err
SelectRecvOf(i) ==
    /\ loads[i].pc = "select"
    /\ RecvReady(loads[i])
    /\ loads' = [loads EXCEPT ![i].ret = Recv(loads[i]),
                              ![i].ch.q = IF @ = << >> THEN @ ELSE Tail(@),
                              ![i].pc = "returned"]
    /\ UNCHANGED <<pool, bufs>>

\* select: case <-ctx.Done(): return ctx.Err()
SelectCtxOf(i) ==
    /\ loads[i].pc = "select"
    /\ SelectCtxReady(loads[i])
    /\ loads' = [loads EXCEPT ![i].ret = CtxErr(loads[i].ctx), ![i].pc = "returned"]
    /\ UNCHANGED <<pool, bufs>>

PayloadCall == (\E i \in DOMAIN loads : PayloadCallOf(i)) /\ UNCHANGED <<agentVars, configVars>>
Cancel == (\E i \in DOMAIN loads : CancelOf(i)) /\ UNCHANGED <<agentVars, configVars>>
ReaderGet == (\E i \in DOMAIN loads : ReaderGetOf(i)) /\ UNCHANGED <<agentVars, configVars>>
ReaderReset == (\E i \in DOMAIN loads : ReaderResetOf(i)) /\ UNCHANGED <<agentVars, configVars>>
ReaderRead == (\E i \in DOMAIN loads : ReaderReadOf(i)) /\ UNCHANGED <<agentVars, configVars>>
ReaderSend == (\E i \in DOMAIN loads : ReaderSendOf(i)) /\ UNCHANGED <<agentVars, configVars>>
ReaderStore == (\E i \in DOMAIN loads : ReaderStoreOf(i)) /\ UNCHANGED <<agentVars, configVars>>
ReaderPut == (\E i \in DOMAIN loads : ReaderPutOf(i)) /\ UNCHANGED <<agentVars, configVars>>
ReaderClose == (\E i \in DOMAIN loads : ReaderCloseOf(i)) /\ UNCHANGED <<agentVars, configVars>>
SelectRecv == (\E i \in DOMAIN loads : SelectRecvOf(i)) /\ UNCHANGED <<agentVars, configVars>>
SelectCtx == (\E i \in DOMAIN loads : SelectCtxOf(i)) /\ UNCHANGED <<agentVars, configVars>>
\* the caller of load i leaves its select
SelectOf(i) == (SelectRecvOf(i) \/ SelectCtxOf(i)) /\ UNCHANGED <<agentVars, configVars>>

\* ---------------------------------------------------------------- config builders
\* The config maps of an app and of a route or fn: at most MaxConfigKeys
\* entries each, under names that the builders also write and one that they
\* do not.
ConfigKeys ==
    {"FN_FORMAT", "FN_APP_NAME", "FN_PATH", "FN_MEMORY", "FN_TYPE", "FN_TMPSIZE",
     "FN_CPUS", "FN_FN_ID", "DB_URL"}
ConfigMaps(v) ==
    { [k \in S |-> v] : S \in { T \in SUBSET ConfigKeys : Cardinality(T) <= MaxConfigKeys } }

NoBuild == [fn |-> "none", conf |-> EmptyMap]
NoConfig == cfgArgs = [app |-> EmptyMap, obj |-> EmptyMap, cpus |-> 0] /\ cfgOut = NoBuild

\* the objects the builders are handed
CfgApp == [App EXCEPT !.Config = cfgArgs.app]
CfgRoute == [RouteObj("r1", "json") EXCEPT !.Config = cfgArgs.obj, !.CPUs = cfgArgs.cpus]
CfgFn == [FnObj("json") EXCEPT !.Config = cfgArgs.obj]

BuildConfig ==
    /\ cfgOut = NoBuild
    /\ cfgOut' = [fn |-> "buildConfig", conf |-> buildConfig(CfgApp, CfgRoute)]
    /\ UNCHANGED <<agentVars, cfgArgs, payloadVars>>

BuildTriggerConfig ==
    /\ cfgOut = NoBuild
    /\ cfgOut' = [fn |-> "buildTriggerConfig", conf |-> buildTriggerConfig(CfgApp, CfgFn, Trigger)]
    /\ UNCHANGED <<agentVars, cfgArgs, payloadVars>>

\* ---------------------------------------------------------------- specification
NoReturn == [op |-> "none", err |-> Nil, call |-> FALSE, panic |-> FALSE]
\* The formats the route and fn objects declare: none, or json.
DeclaredFormats == [Routes \cup {"f1"} -> {"", "json"}]
NewFormats == [o \in Routes \cup {"f1"} |-> IF o = "f1" THEN "json" ELSE ""]

\* The assembler: one GetCall on an agent, over every option list.
InitAssembly ==
    /\ held = << >>
    /\ trace = << >>
    /\ ret = NoReturn
    /\ hdr = << >>
    /\ format \in DeclaredFormats
    /\ callOverrider \in {"nil", "set"}
    /\ now = 0
    /\ nextId = 1
    /\ ngets = 0
    /\ ninv = 0
    /\ NoConfig
    /\ NoLoads

NextAssembly == GetCall

SpecAssembly == InitAssembly /\ [][NextAssembly]_vars

\* The config synthesizer: one builder call on any pair of config maps.
InitConfig ==
    /\ held = << >>
    /\ trace = << >>
    /\ ret = NoReturn
    /\ hdr = << >>
    /\ format = NewFormats
    /\ callOverrider = "nil"
    /\ now = 0
    /\ nextId = 1
    /\ ngets = 0
    /\ ninv = 0
    /\ cfgArgs \in [app : ConfigMaps("app-value"), obj : ConfigMaps("obj-value"), cpus : {0, 1}]
    /\ cfgOut = NoBuild
    /\ NoLoads

NextConfig == BuildConfig \/ BuildTriggerConfig

SpecConfig == InitConfig /\ [][NextConfig]_vars

\* The payload loader: MaxLoads concurrent setCallPayload executions over
\* one buffer pool, which holds one buffer that an earlier load put back.
InitPayload ==
    /\ held = << >>
    /\ trace = << >>
    /\ ret = NoReturn
    /\ hdr = << >>
    /\ format = NewFormats
    /\ callOverrider = "nil"
    /\ now = 0
    /\ nextId = 1
    /\ ngets = 0
    /\ ninv = 0
    /\ cfgArgs = [app |-> EmptyMap, obj |-> EmptyMap, cpus |-> 0]
    /\ cfgOut = NoBuild
    /\ loads \in [1..MaxLoads -> {Load(src) : src \in Sources}]
    /\ pool = {1}
    /\ bufs = << Body(0) >>

NextPayload ==
    \/ PayloadCall \/ Cancel
    \/ ReaderGet \/ ReaderReset \/ ReaderRead \/ ReaderSend
    \/ ReaderStore \/ ReaderPut \/ ReaderClose
    \/ SelectRecv \/ SelectCtx

SpecPayload == InitPayload /\ [][NextPayload]_vars

\* The same with the scheduling Go gives: a caller whose select has a case
\* that can proceed does proceed.
SpecPayloadLive == SpecPayload /\ \A i \in 1..MaxLoads : WF_vars(SelectOf(i))

\* The front end: a run of HTTP requests against one route and one fn,
\* whose objects declare the formats of NewFormats.
InitRequests ==
    /\ held = << >>
    /\ trace = << >>
    /\ ret = NoReturn
    /\ hdr = << >>
    /\ format = NewFormats
    /\ callOverrider = "nil"
    /\ now = 0
    /\ nextId = 1
    /\ ngets = 0
    /\ ninv = 0
    /\ NoConfig
    /\ NoLoads

NextRequests == Request

SpecRequests == InitRequests /\ [][NextRequests]_vars

\* The lifecycle of one Call handle: GetCall has just returned it, and
\* its owner invokes Start and End on it.
LifecycleOptLists ==
    { << [kind |-> "WithWriter", w |-> "rw"],
         [kind |-> "FromRequest", route |-> "r1", req |-> PlainRequest] >>,
      << [kind |-> "WithWriter", w |-> "buf"],
         [kind |-> "FromHTTPTriggerRequest", req |-> CloudEventRequest] >>,
      << [kind |-> "FromModel"] >> }

Init ==
    \E opts \in LifecycleOptLists :
        \E b \in {GetCallRun(opts, "live", "reader", Nil, TRUE,
                              NewBuilder(<< >>, NewFormats, 0, 1), "nil")} :
            /\ held = << Handle(b) >>
            /\ trace = b.ev
            /\ ret = [op |-> "GetCall", err |-> Nil, call |-> TRUE, panic |-> FALSE]
            /\ hdr = b.hdr
            /\ format = b.format
            /\ callOverrider = "nil"
            /\ now = b.now
            /\ nextId = b.nextId
            /\ ngets = 1
            /\ ninv = 0
            /\ NoConfig
            /\ NoLoads

Next == Start \/ End

Spec == Init /\ [][Next]_vars

\* The end of a call that has run: Start has returned nil, and the driver
\* has left a series of statistics samples on the call, in the order of
\* their timestamps.
Series(n) == [k \in 1..n |-> 2 * k]
StatSeries == { Series(0), Series(2), Series(MaxSamples), Series(MaxSamples + 1),
                Series(2 * MaxSamples + 1) }

InitStats ==
    \E st \in StatSeries :
        \E b \in {GetCallRun(<< [kind |-> "FromModel"] >>, "live", "reader", Nil, TRUE,
                              NewBuilder(<< >>, NewFormats, 0, 1), "nil")} :
        \E s \in {StartRun(Handle(b), b.hdr, b.now, "live", Nil, Nil)} :
            /\ held = << [s.c EXCEPT !.Call.Stats = st] >>
            /\ trace = b.ev \o s.ev
            /\ ret = [op |-> "Start", err |-> s.err, call |-> FALSE, panic |-> FALSE]
            /\ hdr = s.hdr
            /\ format = b.format
            /\ callOverrider = "nil"
            /\ now = s.now
            /\ nextId = b.nextId
            /\ ngets = 1
            /\ ninv = 1
            /\ cfgArgs = [app |-> EmptyMap, obj |-> EmptyMap, cpus |-> 0]
            /\ cfgOut = NoBuild
            /\ loads = << >> /\ pool = {} /\ bufs = << >>

NextStats == End

SpecStats == InitStats /\ [][NextStats]_vars

\* ---------------------------------------------------------------- reading the trace
Idx(tr, name) == { i \in DOMAIN tr : tr[i][1] = name }
Count(tr, name) == Cardinality(Idx(tr, name))
Max(S) == CHOOSE x \in S : \A y \in S : y <= x
Min(S) == CHOOSE x \in S : \A y \in S : x <= y

HookEvents == {"BeforeCall", "AfterCall"}
PersistenceEvents == {"handler.Start", "handler.Finish"}
NoLifecycleEvent(tr) == \A i \in DOMAIN tr : tr[i][1] \notin HookEvents \cup PersistenceEvents

\* the option list the latest GetCall was given, and what it did with it
GivenOpts == trace[1][2]
OptEvents == SelectSeq(trace, LAMBDA e : e[1] = "opt")
OptReturns == SelectSeq(trace, LAMBDA e : e[1] = "opt.return")
\* the models.Call the configurators left in c.Call
Populated == trace[Max(Idx(trace, "populate"))][3]

\* the latest GetCall asked the resource tracker and was refused
Refused(tr) == \E i \in Idx(tr, "IsResourcePossible") : ~tr[i][5]

\* ---------------------------------------------------------------- C1
\* C1 (as amended): when the configurators succeed and populate a Call and
\* IsResourcePossible(Memory + TmpFsSize, CPUs, Type == async) answers false,
\* GetCall returns no Call and exactly ErrCallTimeoutServerBusy, no hook and
\* no persistence call fires, and GetCall does nothing after the refusal;
\* what the configurators wrote before it (response headers, the route's
\* Format) stays written.
C1_BusyRejection ==
    (ret.op = "GetCall" /\ Refused(trace)) =>
        /\ ret.err = ErrCallTimeoutServerBusy
        /\ ~ret.call
        /\ held = << >>
        /\ NoLifecycleEvent(trace)
        /\ trace[Len(trace)][1] = "IsResourcePossible"
        /\ trace[Len(trace)][2] = Populated.Memory + Populated.TmpFsSize
        /\ trace[Len(trace)][3] = Populated.CPUs
        /\ trace[Len(trace)][4] = (Populated.Type = "async")

\* a refused call that needs ephemeral storage, its call id already on the sink
C1_Witness ==
    /\ ret.op = "GetCall"
    /\ Refused(trace)
    /\ Populated.TmpFsSize > 0
    /\ \E i \in DOMAIN hdr : hdr[i][1] = "FN_CALL_ID"

\* C1 as stated: a refused GetCall returns the busy error, fires nothing and
\* mutates no state, the response headers included.
C1_NoStateMutated ==
    [][ (ngets' = ngets + 1 /\ Refused(trace')) =>
            /\ ret'.err = ErrCallTimeoutServerBusy
            /\ held' = << >>
            /\ NoLifecycleEvent(trace')
            /\ hdr' = hdr ]_vars

\* ---------------------------------------------------------------- C2
\* The invocations (Start, End) made on the held Call, in order.
Invocations == SelectSeq(trace, LAMBDA e : e[1] \in {"Start", "End"})
InvIdx == Idx(trace, "Start") \cup Idx(trace, "End")
\* the last trace index of the invocation that begins at i
SegEnd(i) == IF \E j \in InvIdx : j > i THEN Min({ j \in InvIdx : j > i }) - 1 ELSE Len(trace)
Status == held[1].Call.Status
Terminal == {"success", "timeout", "error"}

\* C2: a Start whose context is already done returns the context's error
\* and does nothing else: the call (Status, StartedAt, ...) and the response
\* headers are as before, neither handler.Start nor BeforeCall is invoked;
\* for sync and async calls alike.
C2_StartDoneContext ==
    [][ (ninv' = ninv + 1 /\ ret'.op = "Start" /\ trace'[Len(trace) + 1][2] # "live") =>
            /\ ret'.err = IF trace'[Len(trace) + 1][2] = "canceled"
                          THEN Canceled ELSE DeadlineExceeded
            /\ held' = held
            /\ hdr' = hdr
            /\ trace' = Append(trace, trace'[Len(trace) + 1]) ]_vars

\* an async call, started under a cancelled context: still not running
C2_Witness ==
    /\ ret.op = "Start"
    /\ ret.err = Canceled
    /\ held[1].Call.Type = "async"
    /\ Status = ""
    /\ held[1].Call.StartedAt = 0
    /\ Count(trace, "handler.Start") = 0

\* ---------------------------------------------------------------- C3
\* the error the latest End was given
LastEnd == Max(Idx(trace, "End"))
LastErrIn == trace[LastEnd][2]
\* what the persistence Finish call and the AfterCall hook of the latest End returned
LastFinish == trace[Max(Idx(trace, "handler.Finish"))][4]
LastAfterCall == trace[Max(Idx(trace, "AfterCall"))][3]

\* C3: after End(ctx, errIn) Status is success for a nil errIn, timeout for
\* context.DeadlineExceeded itself, error (with Error the message of errIn)
\* for every other errIn, and CompletedAt is set, whatever Finish and
\* AfterCall return.
C3_StatusMapping ==
    ret.op = "End" =>
        /\ LastErrIn.id = "nil" => Status = "success"
        /\ LastErrIn.id = "context.DeadlineExceeded" => Status = "timeout"
        /\ LastErrIn.id \notin {"nil", "context.DeadlineExceeded"} =>
               Status = "error" /\ held[1].Call.Error = LastErrIn.msg
        /\ held[1].Call.CompletedAt = now
        /\ held[1].Call.CompletedAt > 0

\* an error that only reads like the deadline, with Finish and AfterCall both failing
C3_Witness ==
    /\ ret.op = "End"
    /\ LastErrIn = ErrLookalike
    /\ Status = "error"
    /\ LastFinish # Nil
    /\ LastAfterCall # Nil

\* ---------------------------------------------------------------- C4
\* C4: every End calls the persistence Finish and then fires AfterCall,
\* once each, also when Finish returned an error.
C4_AfterCallFollowsFinish ==
    \A i \in Idx(trace, "End") :
        \E j, k \in i..SegEnd(i) :
            /\ j < k
            /\ trace[j][1] = "handler.Finish"
            /\ trace[k][1] = "AfterCall"
            /\ \A m \in i..SegEnd(i) :
                   /\ trace[m][1] = "handler.Finish" => m = j
                   /\ trace[m][1] = "AfterCall" => m = k

\* a timed out call whose Finish failed: AfterCall fired after it
C4_Witness ==
    /\ ret.op = "End"
    /\ LastErrIn = DeadlineExceeded
    /\ LastFinish = ErrHandler
    /\ Max(Idx(trace, "AfterCall")) > Max(Idx(trace, "handler.Finish"))
    /\ Max(Idx(trace, "handler.Finish")) > LastEnd

\* ---------------------------------------------------------------- C5
\* C5: End returns "AfterCall: <message>" when AfterCall failed and errIn
\* itself when it did not; what Finish returned changes neither that nor
\* the Status.
C5_EndReturn ==
    ret.op = "End" =>
        /\ LastAfterCall # Nil =>
               /\ ret.err.msg = "AfterCall: " \o LastAfterCall.msg
               /\ ret.err # LastErrIn
        /\ LastAfterCall = Nil => ret.err = LastErrIn
        /\ (Status = "success") = (LastErrIn = Nil)
        /\ (Status = "timeout") = (LastErrIn = DeadlineExceeded)

\* Finish failed, AfterCall did not: End hands the execution error back
C5_Witness ==
    /\ ret.op = "End"
    /\ LastFinish = ErrHandler
    /\ LastAfterCall = Nil
    /\ LastErrIn = ErrExec
    /\ ret.err = ErrExec
    /\ Status = "error"

\* ---------------------------------------------------------------- C6
StartThenEnd ==
    /\ Len(Invocations) = 2
    /\ Invocations[1][1] = "Start"
    /\ Invocations[2][1] = "End"
HooksOnceInOrder ==
    /\ Count(trace, "BeforeCall") = 1
    /\ Count(trace, "AfterCall") = 1
    /\ Max(Idx(trace, "BeforeCall")) < Max(Idx(trace, "AfterCall"))
\* Start got as far as its hook: live context, no failed reservation
StartReachedHook ==
    /\ Invocations[1][2] = "live"
    /\ \A i \in Idx(trace, "handler.Start") : trace[i][3] = Nil

\* C6 (as amended): when Start is invoked with a live context and, for an
\* async call, the persistence Start succeeds, and End is invoked after it,
\* BeforeCall fires exactly once and AfterCall exactly once, BeforeCall
\* first, whatever the outcome handed to End.
C6_HooksOnce == (StartThenEnd /\ StartReachedHook) => HooksOnceInOrder

\* an async call run to a timeout: reserved, BeforeCall, then AfterCall
C6_Witness ==
    /\ StartThenEnd
    /\ StartReachedHook
    /\ held[1].Call.Type = "async"
    /\ Status = "timeout"
    /\ Count(trace, "handler.Start") = 1

\* C6 as stated: any Start followed by End fires each hook exactly once.
C6_AnyStartThenEnd == StartThenEnd => HooksOnceInOrder

\* ---------------------------------------------------------------- C7
\* C7: Status follows created -> running -> terminal only: once a Call that
\* was started holds a terminal Status, no later Start or End changes it.
C7_TerminalIsFinal ==
    [][ (held # << >> /\ Count(trace, "BeforeCall") = 1 /\ Status \in Terminal)
            => held'[1].Call.Status = Status ]_vars

\* ---------------------------------------------------------------- C8
\* C8: a Call that GetCall returns was populated by exactly one source
\* configurator; an option list with more than one is rejected.
C8_SingleSource ==
    (ret.op = "GetCall" /\ ret.call) =>
        Cardinality({ i \in Idx(trace, "opt") : trace[i][2].kind \in SourceKinds }) = 1

\* ---------------------------------------------------------------- C9
\* C9: GetCall applies its configurators in list order; the first one that
\* returns an error ends GetCall with that error and no Call, no later
\* configurator is applied and neither the overrider nor the admission check
\* is invoked.  If all succeed and none populated the Call, GetCall returns
\* its own error, again before overrider and admission.
NoOverriderNoAdmission ==
    Count(trace, "callOverrider") = 0 /\ Count(trace, "IsResourcePossible") = 0

C9_ConfiguratorsInOrder ==
    ret.op = "GetCall" =>
        /\ Len(OptEvents) <= Len(GivenOpts)
        /\ Len(OptReturns) = Len(OptEvents)
        /\ \A k \in DOMAIN OptEvents : OptEvents[k][2] = GivenOpts[k]
        /\ \A k \in DOMAIN OptReturns : k < Len(OptReturns) => OptReturns[k][2] = Nil
        /\ IF OptReturns # << >> /\ OptReturns[Len(OptReturns)][2] # Nil
           THEN /\ ret.err = OptReturns[Len(OptReturns)][2]
                /\ ~ret.call
                /\ held = << >>
                /\ NoOverriderNoAdmission
           ELSE /\ Len(OptEvents) = Len(GivenOpts)
                /\ Count(trace, "populate") = 0 =>
                      /\ ret.err = ErrNoModel
                      /\ ~ret.call
                      /\ held = << >>
                      /\ NoOverriderNoAdmission

\* the first of two configurators failed validation on an agent that has an
\* overrider: the second was never applied
C9_Witness ==
    /\ ret.op = "GetCall"
    /\ callOverrider = "set"
    /\ Len(GivenOpts) = 2
    /\ Len(OptEvents) = 1
    /\ ret.err = ErrValidate

\* ---------------------------------------------------------------- C10
HTTPSources == {"FromRequest", "FromHTTPTriggerRequest"}
\* where the configurator applied at trace index i returned
ReturnOf(i) == Min({ j \in Idx(trace, "opt.return") : j > i })
\* the output sink c.w when the configurator at trace index i runs
SinkAt(i) ==
    IF \E j \in Idx(trace, "opt") : j < i /\ trace[j][2].kind = "WithWriter"
    THEN trace[Max({ j \in Idx(trace, "opt") : j < i /\ trace[j][2].kind = "WithWriter" })][2].w
    ELSE "nil"
\* the configurator at i put its call id on the response before validating
CallIDBeforeValidate(i) ==
    \E j \in Idx(trace, "hdr") :
        /\ i < j /\ j < ReturnOf(i)
        /\ \A k \in Idx(trace, "Validate") : (i < k /\ k < ReturnOf(i)) => j < k
        /\ \E h \in DOMAIN hdr : hdr[h][1] = "FN_CALL_ID" /\ hdr[h][2] = trace[j][3]

\* C10 (as amended): when an HTTP source configurator runs while the sink
\* in effect, the one the last WithWriter before it in the option list set,
\* is an http.ResponseWriter, the FN_CALL_ID header is on that sink before
\* route validation runs, and stays there when validation fails.
C10_CallIDEager ==
    ret.op = "GetCall" =>
        \A i \in Idx(trace, "opt") :
            (trace[i][2].kind \in HTTPSources /\ IsResponseWriter(SinkAt(i)))
                => CallIDBeforeValidate(i)

\* validation failed and the call id is on the response all the same
C10_Witness ==
    /\ ret.op = "GetCall"
    /\ ret.err = ErrValidate
    /\ \E h \in DOMAIN hdr : hdr[h][1] = "FN_CALL_ID"

\* C10 as stated: the header is set wherever WithWriter stands in the list.
C10_AnyPosition ==
    ret.op = "GetCall" =>
        \A i \in Idx(trace, "opt") :
            (/\ trace[i][2].kind \in HTTPSources
             /\ \E k \in DOMAIN GivenOpts :
                    GivenOpts[k].kind = "WithWriter" /\ IsResponseWriter(GivenOpts[k].w))
                => CallIDBeforeValidate(i)

\* ---------------------------------------------------------------- C11
\* the source configurator of the latest GetCall and the object it reads
SourceOpt == trace[Min({ i \in Idx(trace, "opt") : trace[i][2].kind \in SourceKinds })][2]
SourceObj == IF SourceOpt.kind = "FromRequest" THEN SourceOpt.route ELSE "f1"
DeclaredOrDefault(f) == IF f = "" THEN FormatDefault ELSE f

\* C11: every call assembled from an HTTP request, also one that follows
\* earlier requests on the same route or fn, has the event flag set and the
\* format cloudevent when the Content-Type is application/cloudevents+json,
\* and otherwise the flag unset and the format the route or fn declares (the
\* default when it declares none).
C11_FormatPerRequest ==
    (ret.op = "GetCall" /\ ret.call) =>
        IF IsCloudEventType(SourceOpt.req.ct)
        THEN held[1].IsCloudEvent /\ held[1].Call.Format = FormatCloudEvent
        ELSE /\ ~held[1].IsCloudEvent
             /\ held[1].Call.Format = DeclaredOrDefault(NewFormats[SourceObj])

\* ---------------------------------------------------------------- C12
\* what the two layers give for key k: the route / fn entry, else the app's
Layered(k) == IF k \in DOMAIN cfgArgs.obj THEN cfgArgs.obj[k] ELSE cfgArgs.app[k]
UserKeys == DOMAIN cfgArgs.app \cup DOMAIN cfgArgs.obj
\* the derived entries of a route config and of a trigger config
SynthRoute ==
    [FN_FORMAT |-> "json", FN_APP_NAME |-> "myapp", FN_PATH |-> "/hello",
     FN_MEMORY |-> "1", FN_TYPE |-> "sync", FN_TMPSIZE |-> "1"]
SynthTrigger ==
    [FN_FORMAT |-> "json", FN_APP_NAME |-> "myapp", FN_PATH |-> "/t/hello",
     FN_MEMORY |-> "1", FN_TYPE |-> "sync", FN_FN_ID |-> "f1"]
SynthCPUs == IF cfgArgs.cpus # 0 THEN [FN_CPUS |-> "1m"] ELSE EmptyMap
Synthesized == IF cfgOut.fn = "buildConfig" THEN SynthCPUs @@ SynthRoute ELSE SynthTrigger

\* C12 (as amended): the built config holds exactly the keys of the two
\* layers and the builder's derived keys; a derived key holds its derived
\* value whatever the layers say, every other key the route / fn value when
\* that layer has it and the app value otherwise.  buildConfig derives
\* FN_FORMAT, FN_APP_NAME, FN_PATH, FN_MEMORY, FN_TYPE, FN_TMPSIZE, and
\* FN_CPUS when the CPU quantity prints non-empty; buildTriggerConfig derives
\* FN_FORMAT, FN_APP_NAME, FN_PATH, FN_MEMORY, FN_TYPE, FN_FN_ID.
C12_ConfigPrecedence ==
    cfgOut.fn # "none" =>
        /\ DOMAIN cfgOut.conf = UserKeys \cup DOMAIN Synthesized
        /\ \A k \in DOMAIN cfgOut.conf :
               cfgOut.conf[k] = IF k \in DOMAIN Synthesized THEN Synthesized[k] ELSE Layered(k)

\* both layers define DB_URL, the route defines FN_FORMAT, the app FN_CPUS
\* for a route without a CPU quantity
C12_Witness ==
    /\ cfgOut.fn = "buildConfig"
    /\ DOMAIN cfgArgs.obj = {"DB_URL", "FN_FORMAT"}
    /\ DOMAIN cfgArgs.app = {"DB_URL", "FN_CPUS"}
    /\ cfgArgs.cpus = 0
    /\ cfgOut.conf["DB_URL"] = "obj-value"
    /\ cfgOut.conf["FN_FORMAT"] = "json"
    /\ cfgOut.conf["FN_CPUS"] = "app-value"

\* C12 as stated: after either builder none of FN_FORMAT, FN_APP_NAME,
\* FN_PATH, FN_MEMORY, FN_TYPE, FN_TMPSIZE holds a value a layer supplied.
C12_SixKeysAlways ==
    cfgOut.fn # "none" =>
        \A k \in DOMAIN SynthRoute \cap UserKeys : cfgOut.conf[k] # Layered(k)

\* ---------------------------------------------------------------- C13
\* the reader of load l has a buffer from Get and has not put it back
Holding(l) == l.rpc \in {"reset", "read", "store", "put"}
\* the caller of load l gave up on its context and left the reader behind
Abandoned(l) == l.pc = "returned" /\ l.ret = Canceled /\ l.rpc \notin {"idle", "done"}

\* C13: under every interleaving of setCallPayload executions and
\* cancellations, no buffer is held by two reader goroutines at once, and a
\* buffer a reader holds (an abandoned reader's included) is not in the pool
\* for another load to get.
C13_BufferExclusive ==
    \A i \in DOMAIN loads :
        Holding(loads[i]) =>
            /\ loads[i].buf \notin pool
            /\ \A j \in DOMAIN loads \ {i} : Holding(loads[j]) => loads[j].buf # loads[i].buf

\* an abandoned reader still reads into the buffer it took from the pool
\* while another load has a buffer of its own
C13_Witness ==
    \E i, j \in DOMAIN loads :
        /\ i # j
        /\ Abandoned(loads[i]) /\ loads[i].rpc = "read" /\ loads[i].buf = 1
        /\ Holding(loads[j])

\* ---------------------------------------------------------------- C14
\* the reader of load l has not come back from its read
NotRead(l) == l.rpc \in {"get", "reset", "read"}

\* C14: once the context is cancelled while the caller waits in its select,
\* setCallPayload returns; it returns the context's error unless the read
\* has come back in the meantime.
C14_CancelObserved ==
    \A i \in 1..MaxLoads :
        (loads # << >> /\ loads[i].pc = "select" /\ loads[i].ctx # "live")
            ~> (loads[i].pc = "returned" /\ (loads[i].ret = Canceled \/ ~NotRead(loads[i])))

\* the caller has returned the context's error, the reader sits in a read
\* that has not returned
C14_Witness ==
    \E i \in DOMAIN loads :
        /\ loads[i].src = "stuck"
        /\ loads[i].rpc = "read"
        /\ loads[i].pc = "returned"
        /\ loads[i].ret = Canceled

\* ---------------------------------------------------------------- C20
\* C20: setCallPayload returns nil only after the reader stored the whole
\* body in Payload and put its buffer back; after a failed read the buffer
\* is not put back and Payload is not written; the reader never waits to
\* report its result, whether or not the caller is still there.
C20_ReaderProtocol ==
    \A i \in DOMAIN loads :
        /\ (loads[i].pc = "returned" /\ loads[i].ret = Nil) =>
               /\ loads[i].Payload = Body(i)
               /\ loads[i].put
               /\ loads[i].rpc = "done"
        /\ loads[i].readErr # Nil =>
               /\ ~loads[i].put
               /\ loads[i].Payload = << >>
               /\ loads[i].buf \notin pool
        /\ loads[i].rpc = "send" => SendReady(loads[i])

\* a reader whose caller left on cancellation has reported its read error
\* into the channel nobody receives from
C20_Witness ==
    \E i \in DOMAIN loads :
        /\ loads[i].pc = "returned"
        /\ loads[i].ret = Canceled
        /\ loads[i].rpc = "done"
        /\ loads[i].ch.q = << ErrRead >>

\* ---------------------------------------------------------------- C15
\* the identity and execution parameters of a models.Call
FrameFields ==
    {"ID", "AppID", "FnID", "TriggerID", "Path", "Image", "Type", "Format", "Timeout",
     "IdleTimeout", "Memory", "CPUs", "TmpFsSize", "Config", "Annotations", "CreatedAt",
     "URL", "Method", "Headers"}

\* C15: after any sequence of Start and End invocations the call's ID,
\* app / fn / trigger IDs, path, image, type, format, timeouts, memory,
\* CPUs, ephemeral storage size, config, annotations, creation time, URL,
\* method and headers are what the configurator put there for GetCall.
C15_ParametersFixed ==
    held # << >> => \A f \in FrameFields : held[1].Call[f] = Populated[f]

\* a call that was started and ended in error: every lifecycle field written
C15_Witness ==
    /\ held # << >>
    /\ Count(trace, "Start") >= 1
    /\ ret.op = "End"
    /\ Status = "error"
    /\ held[1].Call.Error # ""
    /\ held[1].Call.StartedAt > 0
    /\ held[1].Call.CompletedAt > held[1].Call.StartedAt
    /\ held[1].Call.Config # EmptyMap

\* ---------------------------------------------------------------- C16
\* the events the step in progress appended to the trace
NewEvents == { i \in DOMAIN trace' : i > Len(trace) }

\* C16: a Start with a live context whose persistence Start fails (async
\* call) returns that error as it is, fires no BeforeCall, and leaves the
\* call not marked as started: Status and StartedAt as they were.
C16_FailedReserveNotStarted ==
    [][ (/\ ret'.op = "Start"
         /\ ninv' = ninv + 1
         /\ \E i \in NewEvents : trace'[i][1] = "handler.Start" /\ trace'[i][3] # Nil)
        => /\ ret'.err = ErrHandler
           /\ \A i \in NewEvents : trace'[i][1] # "BeforeCall"
           /\ held'[1].Call.Status = held[1].Call.Status
           /\ held'[1].Call.StartedAt = held[1].Call.StartedAt ]_vars

\* ---------------------------------------------------------------- C17
\* C17: FromEvent on an extension map with the app, fn and trigger entries
\* returns no error and populates the Call; on an extension value that is
\* not such a map it returns an error and populates nothing.
C17_FromEvent ==
    ret.op = "GetCall" =>
        \A i \in Idx(trace, "opt") :
            trace[i][2].kind = "FromEvent" =>
                IF trace[i][2].ext = "map"
                THEN /\ trace[ReturnOf(i)][2] = Nil
                     /\ \E j \in Idx(trace, "populate") :
                            /\ i < j /\ j < ReturnOf(i)
                            /\ trace[j][3].Type = "sync"
                            /\ trace[j][3].Format = "cloudevent"
                ELSE /\ trace[ReturnOf(i)][2] = ErrExtensions
                     /\ \A j \in Idx(trace, "populate") : ~(i < j /\ j < ReturnOf(i))

\* ---------------------------------------------------------------- C19
\* the stderr.Close calls made before trace index i
ClosedBefore(i) == Cardinality({ k \in Idx(trace, "stderr.Close") : k < i })

Chronological(st) == \A a \in 1..(Len(st) - 1) : st[a] < st[a + 1]
\* the persistence Finish call of the End that begins at trace index i
FinishOf(i) == Min({ j \in Idx(trace, "handler.Finish") : j > i })

\* C18: in every End the statistics series is decimated before the
\* persistence Finish call: Finish sees the series of the call unchanged
\* when it has at most 240 samples and exactly 240 otherwise, never more
\* than 240, all of them samples the driver recorded, in chronological order.
C18_DecimatedBeforeFinish ==
    \A i \in Idx(trace, "End") :
        \E st \in {trace[FinishOf(i)][5]} :
            /\ Len(st) = IF trace[i][3] <= 240 THEN trace[i][3] ELSE 240
            /\ Chronological(st)
            /\ \A a \in DOMAIN st : st[a] % 2 = 0 /\ 2 <= st[a] /\ st[a] <= 962

\* a call with 481 samples was ended: Finish saw 240, the last one among them
C18_Witness ==
    /\ ret.op = "End"
    /\ \E i \in Idx(trace, "End") :
           \E st \in {trace[FinishOf(i)][5]} :
               /\ trace[i][3] = 481
               /\ Len(st) = 240
               /\ st[240] = 962
    /\ Len(held[1].Call.Stats) = 240
====
